---- MODULE Spec2Model ----
(***************************************************************************)
(* go-app-metrics: the periodic collectors of package system and package   *)
(* rmetric (Collector.New / Once / Run / collectStats), the expvar         *)
(* callbacks of package exp, the go-metrics registry publisher of package  *)
(* monitor and the HTTP handler of package stat.                           *)
(*                                                                         *)
(* Numbers.  A float64 quotient a / b is kept as the fraction <<a, b>>     *)
(* (b > 0); the float zero value is <<0, 1>>.  A uint64 difference is kept *)
(* as <<q, r>>, standing for q * 2^64 + r with q \in {0, 1}: the counters  *)
(* of the model are far below 2^63, so a - b wraps exactly when a < b, and *)
(* the wrapped value is 2^64 + (a - b).  The int64 values of package stat  *)
(* are kept as their decimal digits, most significant first.               *)
(***************************************************************************)
EXTENDS Integers, Sequences, FiniteSets, TLC

VARIABLES
    kind,      \* which package's Collector the process built: "system", "rmetric" or "monitor"
    handler,   \* the statsHandler given to New: "record" (a recording callback) or "expvar"
    enable,    \* rmetric.Collector: EnableCPU, EnableMem, EnableGC
    pc,        \* position of the goroutine that owns the Collector
    done,      \* the Done channel has been closed
    ticker,    \* the time.Ticker of Run exists and has not been stopped
    tickC,     \* ticks buffered in tick.C (capacity 1)
    c,         \* the system Collector's private fields cpuStat and netStats
    calls,     \* statsHandler invocations that are executing
    ret,       \* what the last Once returned
    met,       \* history: counts of samples, invocations, ticks; what Run saw at its select
    obs,       \* history: the platform readings the samples were taken from
    systemMap, \* exp: the expvar map "systemStats"
    rmetricMap,\* exp: the expvar map "rmetricStats"
    mon,       \* monitor: package variables cpuStat, netStats, the gauges and the registry
    gor,       \* goroutines calling Once concurrently on one Collector
    resp       \* stat: the request the Stats handler served last, its wait and its response

vars == <<resp, kind, handler, enable, pc, done, ticker, tickC, c, calls, ret, met, obs,
          systemMap, rmetricMap, mon, gor>>

----------------------------------------------------------------------------
(* Bounds of the model *)

\* largest value of the busy and of the idle part of a cpu reading
MaxCPU == 1
\* largest level of an interface's cumulative counters
MaxNet == 1
\* the history counters stop counting here
MaxCount == 2
\* largest level of the readings a Run loop is given
MaxRun == 1

Interfaces == {"eth0", "lo"}
Mountpoints == {"/", "/data"}

Sat(n) == IF n < MaxCount THEN n + 1 ELSE n

----------------------------------------------------------------------------
(* The platform: what gopsutil returns *)

\* cpu.TimesStat
TimesStat(busy, idle) ==
    [User |-> 2 * busy, System |-> busy, Idle |-> 3 * idle, Nice |-> busy,
     Iowait |-> idle, Irq |-> busy, Softirq |-> 0, Steal |-> idle,
     Guest |-> 0, GuestNice |-> 0, Stolen |-> 0]

CPUTimes == { TimesStat(b, i) : b \in 0..MaxCPU, i \in 0..MaxCPU }

\* cpu.Times(false): an error, an empty slice, or one TimesStat
CPUResults ==
    {[err |-> TRUE, list |-> <<>>], [err |-> FALSE, list |-> <<>>]}
    \cup {[err |-> FALSE, list |-> <<t>>] : t \in CPUTimes}

\* net.IOCountersStat of interface name
IOCountersStat(name, n) ==
    [Name |-> name, BytesSent |-> 4 * n, BytesRecv |-> 3 * n,
     PacketsSent |-> 2 * n, PacketsRecv |-> n]

\* the slice net.IOCounters(true) returns, as a function of the interface name
IOCounterLists ==
    UNION { [S -> 0..MaxNet] : S \in SUBSET Interfaces }

NetList(f) == [i \in DOMAIN f |-> IOCountersStat(i, f[i])]

NetResults ==
    {[err |-> TRUE, list |-> NetList(<<>>)]}
    \cup {[err |-> FALSE, list |-> NetList(f)] : f \in IOCounterLists}

LoadAvg == [Load1 |-> 1, Load5 |-> 5, Load15 |-> 15]
VirtualMemory == [Total |-> 8, Available |-> 3, Used |-> 5]
SwapMemory == [Total |-> 4, Free |-> 3, Used |-> 1]
DiskUsage(p) == IF p = "/" THEN [Total |-> 20, Free |-> 7] ELSE [Total |-> 30, Free |-> 9]

Ok(v) == [err |-> FALSE, val |-> v]
Failed(v) == [err |-> TRUE, val |-> v]

\* one round of platform reads with every group succeeding, counters at level n
NominalRead(n) ==
    [cpu  |-> [err |-> FALSE, list |-> <<TimesStat(n, n)>>],
     load |-> Ok(LoadAvg),
     vmem |-> Ok(VirtualMemory),
     swap |-> Ok(SwapMemory),
     disk |-> [p \in Mountpoints |-> Ok(DiskUsage(p))],
     net  |-> [err |-> FALSE, list |-> NetList([i \in Interfaces |-> n])],
     rt   |-> [cpu |-> n + 1, mem |-> n + 2, gc |-> n + 3]]

Groups == {"cpu", "load", "vmem", "swap", "net"} \cup Mountpoints

\* the sets of groups that fail in one round: one group, all but one, or all
FailingSets == {{g} : g \in Groups} \cup {Groups \ {g} : g \in Groups} \cup {Groups}

\* rounds in which some groups fail
FailingReads ==
    { [cpu  |-> IF "cpu" \in F THEN [err |-> TRUE, list |-> <<>>] ELSE NominalRead(1).cpu,
       load |-> IF "load" \in F THEN Failed(LoadAvg) ELSE Ok(LoadAvg),
       vmem |-> IF "vmem" \in F THEN Failed(VirtualMemory) ELSE Ok(VirtualMemory),
       swap |-> IF "swap" \in F THEN Failed(SwapMemory) ELSE Ok(SwapMemory),
       disk |-> [p \in Mountpoints |->
                    IF p \in F THEN Failed(DiskUsage(p)) ELSE Ok(DiskUsage(p))],
       net  |-> IF "net" \in F THEN [err |-> TRUE, list |-> NetList(<<>>)]
                ELSE NominalRead(1).net,
       rt   |-> NominalRead(1).rt] :
      F \in FailingSets }

\* the rounds a Collector is sampled with: one group departs from the nominal round
Reads ==
    {[NominalRead(1) EXCEPT !.cpu = x] : x \in CPUResults}
    \cup {[NominalRead(1) EXCEPT !.net = x] : x \in NetResults}
    \cup FailingReads

\* the rounds a Run loop is sampled with
RunReads ==
    {NominalRead(n) : n \in 0..MaxRun}
    \cup {[NominalRead(1) EXCEPT !.net = [err |-> FALSE, list |-> NetList(<<>>)]]}
    \cup {r \in FailingReads : r.cpu.err /\ r.net.err /\ r.load.err /\ r.vmem.err
                                /\ r.swap.err /\ \A p \in Mountpoints : r.disk[p].err}

----------------------------------------------------------------------------
(* package system *)

Nil == [nil |-> TRUE]
Ptr(v) == [nil |-> FALSE, v |-> v]

ZeroFloat == <<0, 1>>
Quot(a, b) == <<a, b>>

\* uint64 subtraction a - b
SubU64(a, b) == IF a >= b THEN <<0, a - b>> ELSE <<1, a - b>>
ZeroU64 == <<0, 0>>

\* cpu.TimesStat.Total()
Total(t) ==
    t.User + t.System + t.Nice + t.Iowait + t.Irq + t.Softirq + t.Steal
    + t.Guest + t.GuestNice + t.Stolen + t.Idle

ZeroCPUStat == [User |-> ZeroFloat, System |-> ZeroFloat, Idle |-> ZeroFloat, Iowait |-> ZeroFloat]
ZeroLoadStat == [Load1 |-> 0, Load5 |-> 0, Load15 |-> 0]
ZeroMemStat == [Total |-> 0, Available |-> 0, Used |-> 0]
ZeroSwapMemStat == [Total |-> 0, Free |-> 0, Used |-> 0]

\* New: the fields of a fresh Collector
NewCollector == [cpuStat |-> Nil, netStats |-> [i \in Interfaces |-> Nil]]

\* a guard that lets a zero total through
CollectCPUConditionNonNegative(total) == total >= 0

\* collectStats, the cpu group: the guard of the division
CollectCPUCondition(total) == total > 0

CollectCPU(cpuStat, res) ==
    IF ~res.err /\ Len(res.list) > 0
    THEN LET cpustat2 == res.list[1]
             cpuStat1 == IF cpuStat.nil THEN cpustat2 ELSE cpuStat.v
             total == Total(cpustat2) - Total(cpuStat1)
         IN [stat |-> IF CollectCPUCondition(total)
                      THEN [User   |-> Quot((cpustat2.User - cpuStat1.User) * 100, total),
                            System |-> Quot((cpustat2.System - cpuStat1.System) * 100, total),
                            Iowait |-> Quot((cpustat2.Iowait - cpuStat1.Iowait) * 100, total),
                            Idle   |-> Quot((cpustat2.Idle - cpuStat1.Idle) * 100, total)]
                      ELSE ZeroCPUStat,
             cpuStat |-> Ptr(cpustat2)]
    ELSE [stat |-> ZeroCPUStat, cpuStat |-> cpuStat]

\* a disk group that gives up at the first failing partition
CollectDiskAbort(res) ==
    IF \E q \in Mountpoints : res[q].err THEN <<>>
    ELSE [p \in Mountpoints |-> [Total |-> res[p].val.Total, Free |-> res[p].val.Free]]

\* collectStats, the disk group: only the partitions whose disk.Usage succeeds
CollectDisk(res) ==
    [p \in {q \in Mountpoints : ~res[q].err} |->
        [Total |-> res[p].val.Total, Free |-> res[p].val.Free]]

\* a first observation measured against zero counters
BaselineFromZero(netStats, s) ==
    IF netStats[s.Name].nil
    THEN [Name |-> s.Name, BytesSent |-> 0, BytesRecv |-> 0, PacketsSent |-> 0, PacketsRecv |-> 0]
    ELSE netStats[s.Name].v

\* collectStats, the bandwidth group: the baseline of an interface
Baseline(netStats, s) == IF netStats[s.Name].nil THEN s ELSE netStats[s.Name].v

\* a baseline that is stored at first observation only
NextBaselineKept(old, s) == IF old.nil THEN Ptr(s) ELSE old

\* netStats[s.Name] = &s, after the delta is taken
NextBaseline(old, s) == Ptr(s)

CollectNet(netStats, res) ==
    IF ~res.err
    THEN [stat |-> [i \in DOMAIN res.list |->
                      LET s == res.list[i]
                          s2 == Baseline(netStats, s)
                      IN [BytesSent   |-> SubU64(s.BytesSent, s2.BytesSent),
                          BytesRecv   |-> SubU64(s.BytesRecv, s2.BytesRecv),
                          PacketsSent |-> SubU64(s.PacketsSent, s2.PacketsSent),
                          PacketsRecv |-> SubU64(s.PacketsRecv, s2.PacketsRecv)]],
          netStats |-> [i \in Interfaces |->
                          IF i \in DOMAIN res.list THEN NextBaseline(netStats[i], res.list[i])
                          ELSE netStats[i]]]
    ELSE [stat |-> <<>>, netStats |-> netStats]

\* collectStats: the SystemStats it returns and the Collector fields it leaves
collectStats(col, r) ==
    LET cpu == CollectCPU(col.cpuStat, r.cpu)
        net == CollectNet(col.netStats, r.net)
    IN [stats |-> [CPUStat       |-> cpu.stat,
                   LoadStat      |-> IF ~r.load.err THEN r.load.val ELSE ZeroLoadStat,
                   MemStat       |-> IF ~r.vmem.err THEN r.vmem.val ELSE ZeroMemStat,
                   SwapMemStat   |-> IF ~r.swap.err THEN r.swap.val ELSE ZeroSwapMemStat,
                   DiskStat      |-> CollectDisk(r.disk),
                   BandwidthStat |-> net.stat],
        c |-> [cpuStat |-> cpu.cpuStat, netStats |-> net.netStats]]

----------------------------------------------------------------------------
(* package rmetric *)

CPUKeys == {"cpu.count", "cpu.threads", "cpu.goroutines", "cpu.cgo_calls"}
MemKeys ==
    {"mem.alloc", "mem.total", "mem.sys", "mem.lookups", "mem.malloc", "mem.frees",
     "mem.heap.alloc", "mem.heap.sys", "mem.heap.idle", "mem.heap.inuse",
     "mem.heap.released", "mem.heap.objects",
     "mem.stack.inuse", "mem.stack.sys", "mem.stack.mspan_inuse", "mem.stack.mspan_sys",
     "mem.stack.mcache_inuse", "mem.stack.mcache_sys", "mem.othersys"}
GCKeys ==
    {"mem.gc.sys", "mem.gc.next", "mem.gc.last", "mem.gc.pause_total", "mem.gc.pause",
     "mem.gc.count", "mem.gc.cpu_fraction"}
RuntimeKeys == CPUKeys \cup MemKeys \cup GCKeys

\* rmetric.New: EnableCPU, EnableMem and EnableGC default to true and may be
\* changed before Run
NewEnable == [cpu |-> TRUE, mem |-> TRUE, gc |-> TRUE]
Enables == [cpu : BOOLEAN, mem : BOOLEAN, gc : BOOLEAN]

\* rmetric collectStats: the RuntimeStats, by the key Values() gives each field
rmetricCollectStats(en, rt) ==
    [k \in RuntimeKeys |->
        IF k \in CPUKeys THEN (IF en.cpu THEN rt.cpu ELSE 0)
        ELSE IF k \in MemKeys THEN (IF en.mem THEN rt.mem ELSE 0)
        ELSE (IF en.mem /\ en.gc THEN rt.gc ELSE 0)]

----------------------------------------------------------------------------
(* SystemStats.Values and package exp *)

ToU64(n) == <<0, n>>

\* int64(u) of a uint64 u = q * 2^64 + r: u itself below 2^63, u - 2^64 from there on
Int64(u) == IF u[1] = 0 THEN u[2] ELSE (u[1] - 1) + u[2]

FixedValues(ss) ==
    [k \in {"cpu.user", "cpu.system", "cpu.idle", "cpu.iowait",
            "load.load1", "load.load5", "load.load15",
            "mem.total", "mem.available", "mem.used",
            "swap.total", "swap.free", "swap.used"} |->
        CASE k = "cpu.user" -> ss.CPUStat.User
          [] k = "cpu.system" -> ss.CPUStat.System
          [] k = "cpu.idle" -> ss.CPUStat.Idle
          [] k = "cpu.iowait" -> ss.CPUStat.Iowait
          [] k = "load.load1" -> ss.LoadStat.Load1
          [] k = "load.load5" -> ss.LoadStat.Load5
          [] k = "load.load15" -> ss.LoadStat.Load15
          [] k = "mem.total" -> ToU64(ss.MemStat.Total)
          [] k = "mem.available" -> ToU64(ss.MemStat.Available)
          [] k = "mem.used" -> ToU64(ss.MemStat.Used)
          [] k = "swap.total" -> ToU64(ss.SwapMemStat.Total)
          [] k = "swap.free" -> ToU64(ss.SwapMemStat.Free)
          [] k = "swap.used" -> ToU64(ss.SwapMemStat.Used)]

DiskKeys(p) == {"disk." \o p \o ".total", "disk." \o p \o ".free"}

NetKeys(n) ==
    {"net." \o n \o ".bytes_sent", "net." \o n \o ".bytes_recv",
     "net." \o n \o ".packets_sent", "net." \o n \o ".packets_recv"}

DiskValue(ss, k) ==
    LET p == CHOOSE q \in DOMAIN ss.DiskStat : k \in DiskKeys(q)
    IN IF k = "disk." \o p \o ".total" THEN ToU64(ss.DiskStat[p].Total)
       ELSE ToU64(ss.DiskStat[p].Free)

NetValue(ss, k) ==
    LET n == CHOOSE i \in DOMAIN ss.BandwidthStat : k \in NetKeys(i)
        stat == ss.BandwidthStat[n]
    IN CASE k = "net." \o n \o ".bytes_sent" -> stat.BytesSent
         [] k = "net." \o n \o ".bytes_recv" -> stat.BytesRecv
         [] k = "net." \o n \o ".packets_sent" -> stat.PacketsSent
         [] k = "net." \o n \o ".packets_recv" -> stat.PacketsRecv

\* SystemStats.Values
Values(ss) ==
    LET disk == UNION {DiskKeys(p) : p \in DOMAIN ss.DiskStat}
        net == UNION {NetKeys(n) : n \in DOMAIN ss.BandwidthStat}
        fixed == FixedValues(ss)
    IN [k \in DOMAIN fixed \cup disk \cup net |->
          IF k \in DOMAIN fixed THEN fixed[k]
          ELSE IF k \in disk THEN DiskValue(ss, k)
          ELSE NetValue(ss, k)]

\* the keys of Values that begin with "cpu." or "load."
FloatKeys ==
    {"cpu.user", "cpu.system", "cpu.idle", "cpu.iowait",
     "load.load1", "load.load5", "load.load15"}

\* a callback that rebuilds the map from the Snapshot at hand
systemStatsCallbackReplacing(m, ss) ==
    LET values == Values(ss)
    IN [k \in DOMAIN values |->
          IF k \in FloatKeys THEN [Float |-> TRUE, v |-> values[k]]
          ELSE [Float |-> FALSE, v |-> Int64(values[k])]]

\* systemStatsCallback: every value of the Snapshot is set in its cell of
\* systemMap, a new expvar.Float or expvar.Int where the key has none
systemStatsCallback(m, ss) ==
    LET values == Values(ss)
    IN [k \in DOMAIN m \cup DOMAIN values |->
          IF k \in DOMAIN values
          THEN IF k \in FloatKeys THEN [Float |-> TRUE, v |-> values[k]]
               ELSE [Float |-> FALSE, v |-> Int64(values[k])]
          ELSE m[k]]

\* runtimeStatsCallback: RuntimeStats.Values has the fields under their keys
runtimeStatsCallback(m, rs) ==
    [k \in DOMAIN m \cup DOMAIN rs |->
        IF k \in DOMAIN rs
        THEN [Float |-> k = "mem.gc.cpu_fraction", v |-> rs[k]]
        ELSE m[k]]

----------------------------------------------------------------------------
(* History *)

NoStats == [none |-> TRUE]
NoRead == [none |-> TRUE]

NewMet ==
    [onces |-> 0, sampled |-> 0, called |-> 0, ticks |-> 0, fired |-> FALSE,
     doneEarly |-> FALSE, polled |-> FALSE, firedAtPoll |-> FALSE,
     owed |-> FALSE, lateTicks |-> 0, late |-> 0]

\* the baselines a reading leaves behind: the last TimesStat read, and for every
\* interface the last IOCountersStat read
Observe(b, r) ==
    [cpu |-> IF ~r.cpu.err /\ r.cpu.list # <<>> THEN Ptr(r.cpu.list[1]) ELSE b.cpu,
     net |-> [i \in Interfaces |->
                IF ~r.net.err /\ i \in DOMAIN r.net.list THEN Ptr(r.net.list[i])
                ELSE b.net[i]]]

NewObs ==
    [last |-> NoRead,
     before |-> [cpu |-> Nil, net |-> [i \in Interfaces |-> Nil]],
     seen |-> [cpu |-> Nil, net |-> [i \in Interfaces |-> Nil]]]

Sampled(o, r) == [last |-> r, before |-> o.seen, seen |-> Observe(o.seen, r)]

----------------------------------------------------------------------------
(* Collector: Once and Run *)

\* c.collectStats() of the Collector the process built
Collect(r) ==
    IF kind = "system" THEN collectStats(c, r)
    ELSE [stats |-> rmetricCollectStats(enable, r.rt), c |-> c]

\* New: a fresh Collector replaces the one the goroutine held
New ==
    /\ kind \in {"system", "rmetric"}
    /\ pc = "idle"
    /\ met.onces > 0
    /\ c' = NewCollector
    /\ ret' = NoStats
    /\ met' = NewMet
    /\ obs' = NewObs
    /\ UNCHANGED <<resp, kind, handler, enable, pc, done, ticker, tickC, calls,
                   systemMap, rmetricMap, mon, gor>>

\* Once
Once(r) ==
    /\ kind \in {"system", "rmetric"}
    /\ pc = "idle"
    /\ ret' = Collect(r).stats
    /\ c' = Collect(r).c
    /\ obs' = Sampled(obs, r)
    /\ met' = [met EXCEPT !.onces = Sat(@)]
    /\ UNCHANGED <<resp, kind, handler, enable, pc, done, ticker, tickC, calls,
                   systemMap, rmetricMap, mon, gor>>

\* Run that creates its ticker first and samples only on a tick
RunStartAtTicker == "ticker"

\* Run: the statement Run starts with
RunStart == "sample"

\* go c.Run()
RunEnter ==
    /\ kind \in {"system", "rmetric"}
    /\ pc = "idle"
    /\ pc' = RunStart
    /\ ret' = NoStats
    /\ UNCHANGED <<resp, kind, handler, enable, done, ticker, tickC, c, calls, met, obs,
                   systemMap, rmetricMap, mon, gor>>

\* go c.statsHandler(...): Run goes on while the handler executes
AfterCallAsync(first) == IF first THEN "ticker" ELSE "select"

\* c.statsHandler(...) is a plain call: Run goes on when the handler has returned
AfterCall(first) == IF first THEN "handler0" ELSE "handler"

\* c.statsHandler(c.collectStats()), up to the handler's entry
SampleAndCall(r) ==
    /\ pc \in {"sample", "tick"}
    /\ c' = Collect(r).c
    /\ calls' = calls \cup {[seq |-> Sat(met.sampled), ord |-> Sat(met.called),
                             ticks |-> met.ticks, ticker |-> ticker,
                             stats |-> Collect(r).stats]}
    /\ obs' = Sampled(obs, r)
    /\ met' = [met EXCEPT !.sampled = Sat(@), !.called = Sat(@),
                          !.owed = FALSE,
                          !.late = IF done /\ ~met.owed THEN Sat(@) ELSE @]
    /\ pc' = AfterCall(pc = "sample")
    /\ UNCHANGED <<resp, kind, handler, enable, done, ticker, tickC, ret,
                   systemMap, rmetricMap, mon, gor>>

\* the handler returns
HandlerReturn ==
    /\ \E h \in calls :
        /\ calls' = calls \ {h}
        /\ systemMap' = IF handler = "expvar" /\ kind = "system"
                        THEN systemStatsCallback(systemMap, h.stats) ELSE systemMap
        /\ rmetricMap' = IF handler = "expvar" /\ kind = "rmetric"
                         THEN runtimeStatsCallback(rmetricMap, h.stats) ELSE rmetricMap
    /\ pc' = CASE pc = "handler0" -> "ticker"
               [] pc = "handler" -> "select"
               [] OTHER -> pc
    /\ UNCHANGED <<resp, kind, handler, enable, done, ticker, tickC, c, ret, met, obs, mon, gor>>

\* tick := time.NewTicker(c.CollectInterval)
NewTicker ==
    /\ pc = "ticker"
    /\ ticker' = TRUE
    /\ pc' = "select"
    /\ UNCHANGED <<resp, kind, handler, enable, done, tickC, c, calls, ret, met, obs,
                   systemMap, rmetricMap, mon, gor>>

Polled(m) ==
    IF m.polled THEN m ELSE [m EXCEPT !.polled = TRUE, !.firedAtPoll = m.fired]

\* select: Done is closed and its case is chosen
SelectDone ==
    /\ pc = "select"
    /\ done
    /\ pc' = "exit"
    /\ met' = Polled(met)
    /\ UNCHANGED <<resp, kind, handler, enable, done, ticker, tickC, c, calls, ret, obs,
                   systemMap, rmetricMap, mon, gor>>

\* select: a tick is buffered and its case is chosen
SelectTick ==
    /\ pc = "select"
    /\ tickC = 1
    /\ tickC' = 0
    /\ pc' = "tick"
    /\ met' = [Polled(met) EXCEPT !.ticks = Sat(@),
                                  !.lateTicks = IF done THEN Sat(@) ELSE @]
    /\ UNCHANGED <<resp, kind, handler, enable, done, ticker, c, calls, ret, obs,
                   systemMap, rmetricMap, mon, gor>>

\* select: no case is ready, the goroutine parks on both channels
SelectPark ==
    /\ pc = "select"
    /\ ~done
    /\ tickC = 0
    /\ pc' = "parked"
    /\ met' = Polled(met)
    /\ UNCHANGED <<resp, kind, handler, enable, done, ticker, tickC, c, calls, ret, obs,
                   systemMap, rmetricMap, mon, gor>>

\* return, and the deferred tick.Stop()
Return ==
    /\ pc = "exit"
    /\ pc' = "returned"
    /\ ticker' = FALSE
    /\ UNCHANGED <<resp, kind, handler, enable, done, tickC, c, calls, ret, met, obs,
                   systemMap, rmetricMap, mon, gor>>

\* a Run that evaluates its select again when woken
WokenByCloseSelects == "select"

\* a Run that a close does not wake
WokenByCloseSleeps == "parked"

\* a Run that takes one more sample when a close wakes it
WokenByCloseSamples == "tick"

\* the state a Run parked in its select resumes in when Done is closed
WokenByClose == "exit"

\* close(done), by whoever holds the channel; a parked Run is woken on that case
CloseDone ==
    /\ kind \in {"system", "rmetric"}
    /\ ~done
    /\ done' = TRUE
    /\ pc' = IF pc = "parked" THEN WokenByClose ELSE pc
    /\ met' = [met EXCEPT !.doneEarly = ~met.fired,
                          !.owed = pc \in {"idle", "sample", "tick"}]
    /\ UNCHANGED <<resp, kind, handler, enable, ticker, tickC, c, calls, ret, obs,
                   systemMap, rmetricMap, mon, gor>>

\* the ticker's period elapses: the tick goes to a parked Run, or into the
\* one-slot buffer of tick.C
Tick ==
    /\ ticker
    /\ \/ /\ pc = "parked"
          /\ pc' = "tick"
          /\ tickC' = tickC
          /\ met' = [met EXCEPT !.ticks = Sat(@), !.fired = TRUE,
                                !.lateTicks = IF done THEN Sat(@) ELSE @]
       \/ /\ pc # "parked"
          /\ tickC = 0
          /\ tickC' = 1
          /\ pc' = pc
          /\ met' = [met EXCEPT !.fired = TRUE]
    /\ UNCHANGED <<resp, kind, handler, enable, done, ticker, c, calls, ret, obs,
                   systemMap, rmetricMap, mon, gor>>

----------------------------------------------------------------------------
(* A Collector with a recording callback, owned by one goroutine *)

Init ==
    /\ kind \in {"system", "rmetric"}
    /\ handler = "record"
    /\ enable \in (IF kind = "rmetric" THEN Enables ELSE {NewEnable})
    /\ pc = "idle"
    /\ done = FALSE
    /\ ticker = FALSE
    /\ tickC = 0
    /\ c = NewCollector
    /\ calls = {}
    /\ ret = NoStats
    /\ met = NewMet
    /\ obs = NewObs
    /\ systemMap = <<>>
    /\ rmetricMap = <<>>
    /\ mon = <<>>
    /\ gor = <<>>
    /\ resp = <<>>

Next ==
    \/ \E r \in RunReads : Once(r)
    \/ RunEnter
    \/ \E r \in RunReads : SampleAndCall(r)
    \/ HandlerReturn
    \/ NewTicker
    \/ SelectDone
    \/ SelectTick
    \/ SelectPark
    \/ Return
    \/ CloseDone
    \/ Tick

Spec == Init /\ [][Next]_vars

\* the Go scheduler runs a runnable goroutine, a handler that returns does return,
\* and select chooses uniformly among its ready cases, so a case that is ready at
\* infinitely many selects is chosen
Fairness ==
    /\ WF_vars(\E r \in RunReads : SampleAndCall(r))
    /\ WF_vars(HandlerReturn)
    /\ WF_vars(NewTicker)
    /\ WF_vars(Return)
    /\ SF_vars(SelectDone)

FairSpec == Spec /\ Fairness

----------------------------------------------------------------------------
(* One goroutine sampling its Collector with Once, over every round of reads *)

OnceNext ==
    \/ \E r \in Reads : Once(r)
    \/ New

OnceSpec == Init /\ [][OnceNext]_vars

----------------------------------------------------------------------------
(* package monitor: the go-metrics registry publisher *)

\* getAllCPUTime: its two results
getAllCPUTime(t) ==
    <<0, t.User + t.System + t.Nice + t.Iowait + t.Irq + t.Softirq + t.Steal
         + t.Guest + t.GuestNice + t.Stolen + t.Idle>>

\* int64(x) of the float64 quotient a / b
TruncQuot(a, b) ==
    LET n == IF a < 0 THEN -a ELSE a
        d == IF b < 0 THEN -b ELSE b
        q == n \div d
    IN IF (a < 0) = (b < 0) THEN q ELSE -q

BandwidthGauges(name) ==
    [BytesSent   |-> "bsGauge." \o name, BytesRecv   |-> "bcGauge." \o name,
     PacketsSent |-> "psGauge." \o name, PacketsRecv |-> "pcGauge." \o name]

\* registerBandwidthMetrics: the names it registers, each with the gauge it is given
registerBandwidthMetrics(name) ==
    LET g == BandwidthGauges(name)
    IN [k \in {"bandwidth." \o name \o ".BytesSent", "bandwidth." \o name \o ".BytesRecv",
               "bandwidth." \o name \o ".PacketsSent", "bandwidth." \o name \o ".PacketsRecv"}
          |-> g.BytesSent]

FixedGauges ==
    {"cpu.User", "cpu.System", "cpu.Idle", "cpu.Iowait",
     "load.Load1", "load.Load5", "load.Load15",
     "mem.Total", "mem.Available", "mem.Used",
     "swapmem.Total", "swapmem.Free", "swapmem.Used"}
    \cup {"disk." \o p \o ".Total" : p \in Mountpoints}
    \cup {"disk." \o p \o ".Free" : p \in Mountpoints}

\* RegisterSystemStats: the package variables it leaves
RegisterSystemStats ==
    [cpuStat |-> Nil,
     netStats |-> [i \in Interfaces |-> Nil],
     gauges |-> [g \in FixedGauges |-> 0],
     bandwidth |-> {},
     registry |-> [k \in FixedGauges \cup {"capture_system"} |-> k],
     timer |-> 0]

Merge(f, g) == [k \in DOMAIN f \cup DOMAIN g |-> IF k \in DOMAIN g THEN g[k] ELSE f[k]]

CaptureCPU(m, res) ==
    IF ~res.err /\ Len(res.list) > 0
    THEN LET cpustat2 == res.list[1]
             cpuStat1 == IF m.cpuStat.nil THEN cpustat2 ELSE m.cpuStat.v
             total1 == getAllCPUTime(cpuStat1)[1]
             total2 == getAllCPUTime(cpustat2)[1]
             total == total2 - total1
         IN [cpuStat |-> Ptr(cpustat2),
             gauges |->
                IF total # 0
                THEN [g \in {"cpu.User", "cpu.System", "cpu.Iowait", "cpu.Idle"} |->
                        CASE g = "cpu.User" ->
                                TruncQuot((cpustat2.User - cpuStat1.User) * 100, total)
                          [] g = "cpu.System" ->
                                TruncQuot((cpustat2.System - cpuStat1.System) * 100, total)
                          [] g = "cpu.Iowait" ->
                                TruncQuot((cpustat2.Iowait - cpuStat1.Iowait) * 100, total)
                          [] g = "cpu.Idle" ->
                                TruncQuot((cpustat2.Idle - cpuStat1.Idle) * 100, total)]
                ELSE <<>>]
    ELSE [cpuStat |-> m.cpuStat, gauges |-> <<>>]

CaptureLoadMem(r) ==
    Merge(Merge(IF ~r.load.err
                THEN [g \in {"load.Load1", "load.Load5", "load.Load15"} |->
                        CASE g = "load.Load1" -> r.load.val.Load1 * 100
                          [] g = "load.Load5" -> r.load.val.Load5 * 100
                          [] g = "load.Load15" -> r.load.val.Load15 * 100]
                ELSE <<>>,
                IF ~r.vmem.err
                THEN [g \in {"mem.Total", "mem.Available", "mem.Used"} |->
                        CASE g = "mem.Total" -> r.vmem.val.Total
                          [] g = "mem.Available" -> r.vmem.val.Available
                          [] g = "mem.Used" -> r.vmem.val.Used]
                ELSE <<>>),
          IF ~r.swap.err
          THEN [g \in {"swapmem.Total", "swapmem.Free", "swapmem.Used"} |->
                  CASE g = "swapmem.Total" -> r.swap.val.Total
                    [] g = "swapmem.Free" -> r.swap.val.Free
                    [] g = "swapmem.Used" -> r.swap.val.Used]
          ELSE <<>>)

CaptureDisk(res) ==
    LET ok == {p \in Mountpoints : ~res[p].err}
    IN [g \in {"disk." \o p \o ".Total" : p \in ok} \cup {"disk." \o p \o ".Free" : p \in ok} |->
          LET p == CHOOSE q \in ok : g \in {"disk." \o q \o ".Total", "disk." \o q \o ".Free"}
          IN IF g = "disk." \o p \o ".Total" THEN res[p].val.Total ELSE res[p].val.Free]

CaptureNet(m, res) ==
    IF ~res.err
    THEN LET read == DOMAIN res.list
             fresh == read \ m.bandwidth
             gaugeOf == [g \in UNION {{BandwidthGauges(i).BytesSent, BandwidthGauges(i).BytesRecv,
                                        BandwidthGauges(i).PacketsSent,
                                        BandwidthGauges(i).PacketsRecv} : i \in read} |->
                           LET i == CHOOSE j \in read :
                                       g \in {BandwidthGauges(j).BytesSent,
                                              BandwidthGauges(j).BytesRecv,
                                              BandwidthGauges(j).PacketsSent,
                                              BandwidthGauges(j).PacketsRecv}
                               s == res.list[i]
                               s2 == Baseline(m.netStats, s)
                           IN CASE g = BandwidthGauges(i).BytesSent ->
                                        Int64(SubU64(s.BytesSent, s2.BytesSent))
                                [] g = BandwidthGauges(i).BytesRecv ->
                                        Int64(SubU64(s.BytesRecv, s2.BytesRecv))
                                [] g = BandwidthGauges(i).PacketsSent ->
                                        Int64(SubU64(s.PacketsSent, s2.PacketsSent))
                                [] g = BandwidthGauges(i).PacketsRecv ->
                                        Int64(SubU64(s.PacketsRecv, s2.PacketsRecv))]
         IN [netStats |-> [i \in Interfaces |->
                             IF i \in read THEN Ptr(res.list[i]) ELSE m.netStats[i]],
             bandwidth |-> m.bandwidth \cup read,
             registered |-> [k \in UNION {DOMAIN registerBandwidthMetrics(i) : i \in fresh} |->
                               LET i == CHOOSE j \in fresh : k \in DOMAIN registerBandwidthMetrics(j)
                               IN registerBandwidthMetrics(i)[k]],
             gauges |-> gaugeOf]
    ELSE [netStats |-> m.netStats, bandwidth |-> m.bandwidth, registered |-> <<>>,
          gauges |-> <<>>]

\* CaptureSystemStatsOnce: the package variables it leaves
CaptureSystemStatsOnce(m, r) ==
    LET cpu == CaptureCPU(m, r.cpu)
        net == CaptureNet(m, r.net)
    IN [cpuStat |-> cpu.cpuStat,
        netStats |-> net.netStats,
        gauges |-> Merge(Merge(Merge(Merge(m.gauges, cpu.gauges), CaptureLoadMem(r)),
                               CaptureDisk(r.disk)), net.gauges),
        bandwidth |-> net.bandwidth,
        registry |-> Merge(net.registered, m.registry),
        timer |-> Sat(m.timer)]

\* CaptureSystemStats: one turn of its loop over time.Tick(d)
Capture(r) ==
    /\ kind = "monitor"
    /\ mon' = CaptureSystemStatsOnce(mon, r)
    /\ obs' = Sampled(obs, r)
    /\ UNCHANGED <<resp, kind, handler, enable, pc, done, ticker, tickC, c, calls, ret, met,
                   systemMap, rmetricMap, gor>>

\* the rounds the publishers are sampled with: the interfaces come and go
PublishReads == {[NominalRead(1) EXCEPT !.net = x] : x \in NetResults}

\* exp.Run has started a Collector whose callback fills the expvar map, or main
\* has called RegisterSystemStats and started CaptureSystemStats
PublishInit ==
    /\ kind \in {"system", "rmetric", "monitor"}
    /\ handler = "expvar"
    /\ enable = NewEnable
    /\ pc = IF kind = "monitor" THEN "idle" ELSE RunStart
    /\ done = FALSE
    /\ ticker = FALSE
    /\ tickC = 0
    /\ c = NewCollector
    /\ calls = {}
    /\ ret = NoStats
    /\ met = NewMet
    /\ obs = NewObs
    /\ systemMap = <<>>
    /\ rmetricMap = <<>>
    /\ mon = IF kind = "monitor" THEN RegisterSystemStats ELSE <<>>
    /\ gor = <<>>
    /\ resp = <<>>

PublishNext ==
    \/ \E r \in PublishReads : SampleAndCall(r)
    \/ HandlerReturn
    \/ NewTicker
    \/ SelectDone
    \/ SelectTick
    \/ SelectPark
    \/ Return
    \/ CloseDone
    \/ Tick
    \/ \E r \in PublishReads : Capture(r)

PublishSpec == PublishInit /\ [][PublishNext]_vars

----------------------------------------------------------------------------
(* Two goroutines calling Once on one system Collector.  collectStats takes no
   lock: its reads and writes of c.cpuStat and of the map c.netStats are separate
   steps that interleave, and the Go runtime may end the process when it finds
   the map written while another goroutine is inside a map access. *)

Goroutines == {1, 2}

NewGoroutine ==
    [pc |-> "ready", r |-> NoRead, cpuStat |-> Nil, cpu |-> ZeroCPUStat,
     todo |-> <<>>, s2 |-> Nil, bw |-> <<>>, result |-> NoStats]

NewGor == [t |-> [g \in Goroutines |-> NewGoroutine], crashed |-> FALSE, c0 |-> NewCollector]

\* the order in which the slice of net.IOCounters lists the interfaces
NetOrder(list) ==
    (IF "eth0" \in DOMAIN list THEN <<"eth0">> ELSE <<>>)
    \o (IF "lo" \in DOMAIN list THEN <<"lo">> ELSE <<>>)

InMapAccess(g) == gor.t[g].pc \in {"iface1", "iface2", "iface3"}

\* go c.Once()
GoOnce(g, r) ==
    /\ kind = "system"
    /\ ~gor.crashed
    /\ gor.t[g].pc = "ready"
    /\ gor' = [gor EXCEPT !.t[g].pc = "load", !.t[g].r = r]
    /\ UNCHANGED <<resp, kind, handler, enable, pc, done, ticker, tickC, c, calls, ret, met, obs,
                   systemMap, rmetricMap, mon>>

\* cpuStat := c.cpuStat
LoadCPUStat(g) ==
    /\ ~gor.crashed
    /\ gor.t[g].pc = "load"
    /\ gor' = [gor EXCEPT !.t[g].pc = "cpu", !.t[g].cpuStat = c.cpuStat]
    /\ UNCHANGED <<resp, kind, handler, enable, pc, done, ticker, tickC, c, calls, ret, met, obs,
                   systemMap, rmetricMap, mon>>

\* cpu.Times, the percentages against the local cpuStat, c.cpuStat = &cpustat2
StoreCPUStat(g) ==
    /\ ~gor.crashed
    /\ gor.t[g].pc = "cpu"
    /\ LET res == gor.t[g].r.cpu
           out == CollectCPU(gor.t[g].cpuStat, res)
       IN /\ gor' = [gor EXCEPT !.t[g].pc = "net", !.t[g].cpu = out.stat]
          /\ c' = IF ~res.err /\ Len(res.list) > 0
                  THEN [c EXCEPT !.cpuStat = out.cpuStat] ELSE c
    /\ UNCHANGED <<resp, kind, handler, enable, pc, done, ticker, tickC, calls, ret, met, obs,
                   systemMap, rmetricMap, mon>>

\* load, memory, swap, disk; net.IOCounters and the head of the loop over it
ReadNet(g) ==
    /\ ~gor.crashed
    /\ gor.t[g].pc = "net"
    /\ LET res == gor.t[g].r.net
           todo == IF res.err THEN <<>> ELSE NetOrder(res.list)
       IN gor' = [gor EXCEPT !.t[g].todo = todo,
                             !.t[g].pc = IF todo = <<>> THEN "return" ELSE "iface1"]
    /\ UNCHANGED <<resp, kind, handler, enable, pc, done, ticker, tickC, c, calls, ret, met, obs,
                   systemMap, rmetricMap, mon>>

\* if netStats[s.Name] == nil { netStats[s.Name] = &s }
InitBaseline(g) ==
    /\ ~gor.crashed
    /\ gor.t[g].pc = "iface1"
    /\ LET s == gor.t[g].r.net.list[Head(gor.t[g].todo)]
       IN c' = [c EXCEPT !.netStats[s.Name] = Ptr(Baseline(c.netStats, s))]
    /\ gor' = [gor EXCEPT !.t[g].pc = "iface2"]
    /\ UNCHANGED <<resp, kind, handler, enable, pc, done, ticker, tickC, calls, ret, met, obs,
                   systemMap, rmetricMap, mon>>

\* s2 := netStats[s.Name] and the four differences
LoadBaseline(g) ==
    /\ ~gor.crashed
    /\ gor.t[g].pc = "iface2"
    /\ LET s == gor.t[g].r.net.list[Head(gor.t[g].todo)]
           s2 == c.netStats[s.Name].v
           stat == [BytesSent   |-> SubU64(s.BytesSent, s2.BytesSent),
                    BytesRecv   |-> SubU64(s.BytesRecv, s2.BytesRecv),
                    PacketsSent |-> SubU64(s.PacketsSent, s2.PacketsSent),
                    PacketsRecv |-> SubU64(s.PacketsRecv, s2.PacketsRecv)]
       IN gor' = [gor EXCEPT !.t[g].pc = "iface3",
                             !.t[g].bw = [i \in DOMAIN @ \cup {s.Name} |->
                                            IF i = s.Name THEN stat ELSE @[i]]]
    /\ UNCHANGED <<resp, kind, handler, enable, pc, done, ticker, tickC, c, calls, ret, met, obs,
                   systemMap, rmetricMap, mon>>

\* netStats[s.Name] = &s, and the next interface
StoreBaseline(g) ==
    /\ ~gor.crashed
    /\ gor.t[g].pc = "iface3"
    /\ LET s == gor.t[g].r.net.list[Head(gor.t[g].todo)]
       IN c' = [c EXCEPT !.netStats[s.Name] = NextBaseline(@, s)]
    /\ gor' = [gor EXCEPT !.t[g].todo = Tail(@),
                          !.t[g].pc = IF Tail(gor.t[g].todo) = <<>> THEN "return" ELSE "iface1"]
    /\ UNCHANGED <<resp, kind, handler, enable, pc, done, ticker, tickC, calls, ret, met, obs,
                   systemMap, rmetricMap, mon>>

\* return stats
OnceReturn(g) ==
    /\ ~gor.crashed
    /\ gor.t[g].pc = "return"
    /\ LET r == gor.t[g].r
       IN gor' = [gor EXCEPT
            !.t[g].pc = "done",
            !.t[g].result =
                [CPUStat       |-> gor.t[g].cpu,
                 LoadStat      |-> IF ~r.load.err THEN r.load.val ELSE ZeroLoadStat,
                 MemStat       |-> IF ~r.vmem.err THEN r.vmem.val ELSE ZeroMemStat,
                 SwapMemStat   |-> IF ~r.swap.err THEN r.swap.val ELSE ZeroSwapMemStat,
                 DiskStat      |-> CollectDisk(r.disk),
                 BandwidthStat |-> gor.t[g].bw]]
    /\ UNCHANGED <<resp, kind, handler, enable, pc, done, ticker, tickC, c, calls, ret, met, obs,
                   systemMap, rmetricMap, mon>>

\* fatal error: concurrent map writes / concurrent map read and map write
Fatal ==
    /\ ~gor.crashed
    /\ \E g \in Goroutines, h \in Goroutines :
        /\ g # h
        /\ gor.t[g].pc \in {"iface1", "iface3"}
        /\ InMapAccess(h)
    /\ gor' = [gor EXCEPT !.crashed = TRUE]
    /\ UNCHANGED <<resp, kind, handler, enable, pc, done, ticker, tickC, c, calls, ret, met, obs,
                   systemMap, rmetricMap, mon>>

RaceInit ==
    /\ kind = "system"
    /\ handler = "record"
    /\ enable = NewEnable
    /\ pc = "idle"
    /\ done = FALSE
    /\ ticker = FALSE
    /\ tickC = 0
    /\ c = NewCollector
    /\ calls = {}
    /\ ret = NoStats
    /\ met = NewMet
    /\ obs = NewObs
    /\ systemMap = <<>>
    /\ rmetricMap = <<>>
    /\ mon = <<>>
    /\ gor = NewGor
    /\ resp = <<>>

RaceNext ==
    \/ \E g \in Goroutines, r \in RunReads : GoOnce(g, r)
    \/ \E g \in Goroutines : LoadCPUStat(g)
    \/ \E g \in Goroutines : StoreCPUStat(g)
    \/ \E g \in Goroutines : ReadNet(g)
    \/ \E g \in Goroutines : InitBaseline(g)
    \/ \E g \in Goroutines : LoadBaseline(g)
    \/ \E g \in Goroutines : StoreBaseline(g)
    \/ \E g \in Goroutines : OnceReturn(g)
    \/ Fatal

RaceSpec == RaceInit /\ [][RaceNext]_vars

----------------------------------------------------------------------------
(* main has called RegisterSystemStats and runs CaptureSystemStats, over every
   round of reads *)

MonitorInit ==
    /\ kind = "monitor"
    /\ handler = "record"
    /\ enable = NewEnable
    /\ pc = "idle"
    /\ done = FALSE
    /\ ticker = FALSE
    /\ tickC = 0
    /\ c = NewCollector
    /\ calls = {}
    /\ ret = NoStats
    /\ met = NewMet
    /\ obs = NewObs
    /\ systemMap = <<>>
    /\ rmetricMap = <<>>
    /\ mon = RegisterSystemStats
    /\ gor = <<>>
    /\ resp = <<>>

MonitorNext == \E r \in Reads : Capture(r)

MonitorSpec == MonitorInit /\ [][MonitorNext]_vars

----------------------------------------------------------------------------
(* package stat: the HTTP handler Stats *)

\* longest `seconds` value that is enumerated character by character
MaxLen == 2

DigitChars == {"0", "1", "2", "3", "4", "5", "6", "7", "8", "9"}

DigitValue(ch) ==
    CASE ch = "0" -> 0 [] ch = "1" -> 1 [] ch = "2" -> 2 [] ch = "3" -> 3 [] ch = "4" -> 4
      [] ch = "5" -> 5 [] ch = "6" -> 6 [] ch = "7" -> 7 [] ch = "8" -> 8 [] ch = "9" -> 9

\* a natural number as its decimal digits, most significant first, zero as <<>>
RECURSIVE Norm(_)
Norm(d) == IF d # <<>> /\ Head(d) = 0 THEN Norm(Tail(d)) ELSE d

Less(a, b) ==
    \/ Len(a) < Len(b)
    \/ /\ Len(a) = Len(b)
       /\ \E i \in 1..Len(a) : a[i] < b[i] /\ \A j \in 1..(i - 1) : a[j] = b[j]

\* 1<<64 - 1, 1<<63 and 1<<63 - 1
MaxUint64 == <<1, 8, 4, 4, 6, 7, 4, 4, 0, 7, 3, 7, 0, 9, 5, 5, 1, 6, 1, 5>>
Cutoff == <<9, 2, 2, 3, 3, 7, 2, 0, 3, 6, 8, 5, 4, 7, 7, 5, 8, 0, 8>>
MaxInt64 == <<9, 2, 2, 3, 3, 7, 2, 0, 3, 6, 8, 5, 4, 7, 7, 5, 8, 0, 7>>

\* strconv.ParseUint(s, 10, 64), after its test for the empty string: the
\* digits are accumulated from the left
RECURSIVE ParseDigits(_, _)
ParseDigits(s, n) ==
    IF s = <<>> THEN [val |-> n, err |-> "nil"]
    ELSE IF Head(s) \notin DigitChars THEN [val |-> <<>>, err |-> "syntax"]
    ELSE LET n1 == Norm(n \o <<DigitValue(Head(s))>>)
         IN IF Less(MaxUint64, n1) THEN [val |-> MaxUint64, err |-> "range"]
            ELSE ParseDigits(Tail(s), n1)

ParseUint(s) ==
    IF s = <<>> THEN [val |-> <<>>, err |-> "syntax"] ELSE ParseDigits(s, <<>>)

\* strconv.ParseInt(s, 10, 64): an int64 as sign and magnitude
ParseInt(s) ==
    IF s = <<>> THEN [neg |-> FALSE, mag |-> <<>>, err |-> "syntax"]
    ELSE LET neg == Head(s) = "-"
             rest == IF Head(s) \in {"+", "-"} THEN Tail(s) ELSE s
             un == ParseUint(rest)
         IN IF un.err = "syntax" THEN [neg |-> FALSE, mag |-> <<>>, err |-> "syntax"]
            ELSE IF ~neg /\ ~Less(un.val, Cutoff)
                 THEN [neg |-> FALSE, mag |-> MaxInt64, err |-> "range"]
            ELSE IF neg /\ Less(Cutoff, un.val)
                 THEN [neg |-> TRUE, mag |-> Cutoff, err |-> "range"]
            ELSE [neg |-> neg /\ un.val # <<>>, mag |-> un.val, err |-> "nil"]

\* the fallback of the handler
DefaultSeconds == <<3, 0>>

\* Stats: sec after `if sec <= 0 || err != nil { sec = 30 }`
Seconds(q) ==
    LET p == ParseInt(q)
    IN IF p.neg \/ p.mag = <<>> \/ p.err # "nil" THEN DefaultSeconds ELSE p.mag

\* time.Second, in nanoseconds, as the zeros it appends to a decimal number
Second == <<0, 0, 0, 0, 0, 0, 0, 0, 0>>

\* time.Duration(sec) * time.Second, an int64 product: the nanoseconds when
\* they fit, and otherwise a wrapped value, which as an int64 lies below
\* 9223372037 seconds and so is never the sec seconds asked for
Duration(sec) ==
    LET ns == Norm(sec \o Second)
    IN IF Less(MaxInt64, ns) THEN [wrapped |-> TRUE] ELSE [wrapped |-> FALSE, ns |-> ns]

\* fmt.Sprintf("%v", v) of the value under key k of SystemStats.Values: "0" for a zero
SystemLine(k, v) ==
    [text |-> IF (IF k \in {"cpu.user", "cpu.system", "cpu.idle", "cpu.iowait"} THEN v[1] = 0
                  ELSE IF k \in FloatKeys THEN v = 0
                  ELSE v = ZeroU64)
              THEN "0" ELSE "nonzero",
     v |-> v]

\* fmt.Sprintf("%v", v) of a value of RuntimeStats.Values
RuntimeLine(v) == [text |-> IF v = 0 THEN "0" ELSE "nonzero", v |-> v]

\* the body Stats writes: one line for every key of rstats.Values() and one
\* for every key of sstats.Values()
Body(rstats, sstats) ==
    LET values == Values(sstats)
    IN [l \in ({"rstats"} \X DOMAIN rstats) \cup ({"sstats"} \X DOMAIN values) |->
          IF l[1] = "rstats" THEN RuntimeLine(rstats[l[2]])
          ELSE SystemLine(l[2], values[l[2]])]

\* a handler that samples its Collector when the request arrives and again
\* after the sleep
StatsResponseSampledTwice(q, r) ==
    [query |-> q,
     read |-> r,
     wait |-> Duration(Seconds(q)),
     status |-> 200,
     body |-> Body(rmetricCollectStats(NewEnable, r.rt),
                   collectStats(collectStats(NewCollector, NominalRead(0)).c, r).stats)]

\* Stats: the request it served, the time it slept and what it answered
StatsResponse(q, r) ==
    [query |-> q,
     read |-> r,
     wait |-> Duration(Seconds(q)),
     status |-> 200,
     body |-> Body(rmetricCollectStats(NewEnable, r.rt), collectStats(NewCollector, r).stats)]

\* the `seconds` values of the requests: the missing or empty value, short
\* values character by character, and values about the limits of int64
Queries ==
    UNION {[1..n -> {"0", "1", "7", "-", "+", "a"}] : n \in 0..MaxLen}
    \cup {<<"3", "0">>,
          <<"9", "2", "2", "3", "3", "7", "2", "0", "3", "6">>,
          <<"9", "2", "2", "3", "3", "7", "2", "0", "3", "7">>,
          <<"9", "2", "2", "3", "3", "7", "2", "0", "3", "6", "8", "5", "4", "7", "7", "5", "8", "0", "7">>,
          <<"9", "2", "2", "3", "3", "7", "2", "0", "3", "6", "8", "5", "4", "7", "7", "5", "8", "0", "8">>,
          <<"-", "9", "2", "2", "3", "3", "7", "2", "0", "3", "6", "8", "5", "4", "7", "7", "5", "8", "0", "8">>,
          <<"1", "8", "4", "4", "6", "7", "4", "4", "0", "7", "3", "7", "0", "9", "5", "5", "1", "6", "1", "6">>,
          <<"1", "8", "4", "4", "6", "7", "4", "4", "0", "7", "3", "7", "0", "9", "5", "5", "1", "6", "1", "6", "a">>}

\* Stats(w, r), for a request the server hands to it
Stats(q, r) ==
    /\ kind = "stat"
    /\ resp = <<>>
    /\ resp' = StatsResponse(q, r)
    /\ UNCHANGED <<kind, handler, enable, pc, done, ticker, tickC, c, calls, ret, met, obs,
                   systemMap, rmetricMap, mon, gor>>

StatInit ==
    /\ kind = "stat"
    /\ handler = "record"
    /\ enable = NewEnable
    /\ pc = "idle"
    /\ done = FALSE
    /\ ticker = FALSE
    /\ tickC = 0
    /\ c = NewCollector
    /\ calls = {}
    /\ ret = NoStats
    /\ met = NewMet
    /\ obs = NewObs
    /\ systemMap = <<>>
    /\ rmetricMap = <<>>
    /\ mon = <<>>
    /\ gor = <<>>
    /\ resp = <<>>

\* the response has been sent and the server waits for the next request
Sent ==
    /\ kind = "stat"
    /\ resp # <<>>
    /\ resp' = <<>>
    /\ UNCHANGED <<kind, handler, enable, pc, done, ticker, tickC, c, calls, ret, met, obs,
                   systemMap, rmetricMap, mon, gor>>

StatNext ==
    \/ \E q \in Queries, r \in Reads : Stats(q, r)
    \/ Sent

StatSpec == StatInit /\ [][StatNext]_vars

----------------------------------------------------------------------------
(* Properties of Run *)

\* C1: Run hands its first Snapshot to the callback on entry: when the first
\* invocation begins no ticker exists yet, no tick has been consumed and the
\* select has not been evaluated, and Run reaches its ticker and its select only
\* after that invocation.
C1_FirstSnapshotImmediate ==
    /\ \A h \in calls : h.ord = 1 => ~h.ticker /\ h.ticks = 0 /\ ~met.polled
    /\ pc \in {"ticker", "select", "parked", "tick", "exit", "returned"} => met.called >= 1
    /\ met.called = 0 => ~ticker /\ met.ticks = 0

C1_Witness ==
    /\ pc = "handler0"
    /\ \E h \in calls : h.ord = 1 /\ ~h.ticker

\* C2 as stated: if Done is closed before the first tick has fired, Run returns
\* having delivered exactly one Snapshot.
C2_ExactlyOneWhenClosedEarly ==
    pc = "returned" /\ met.doneEarly => met.called = 1

\* C2 amended: if Done is closed before the first tick has fired, and no tick has
\* fired when Run first evaluates its select, Run returns having delivered exactly
\* one Snapshot.
C2_ExactlyOneWhenClosedBeforeSelect ==
    pc = "returned" /\ met.doneEarly /\ ~met.firedAtPoll => met.called = 1

C2_Witness ==
    /\ pc = "returned"
    /\ met.doneEarly
    /\ met.polled
    /\ ~met.firedAtPoll
    /\ met.called = 1

\* C3: once Done is closed, a Run that has been started returns, whatever it was
\* doing when the close happened.
C3_RunReturnsAfterClose ==
    (done /\ pc # "idle") ~> (pc = "returned")

\* Done is closed between two ticks, while Run is parked, and Run returns
C3_Witness ==
    /\ pc = "returned"
    /\ done
    /\ ~met.doneEarly
    /\ met.ticks >= 1
    /\ tickC = 0

\* C4: at most one callback invocation executes at a time, the k-th invocation
\* carries the k-th sample of the Run, and no later sample is taken while it
\* executes.
C4_OneAtATimeInOrder ==
    /\ Cardinality(calls) <= 1
    /\ \A h \in calls : h.seq = h.ord /\ h.seq = met.sampled
    /\ calls # {} <=> pc \in {"handler0", "handler"}

C4_Witness ==
    /\ pc = "handler"
    /\ \E h \in calls : h.ord = 2 /\ h.seq = 2

----------------------------------------------------------------------------
(* Properties of collectStats *)

ZeroBandwidthStat ==
    [BytesSent |-> ZeroU64, BytesRecv |-> ZeroU64,
     PacketsSent |-> ZeroU64, PacketsRecv |-> ZeroU64]

ZeroDeltas(s) ==
    /\ s.CPUStat = ZeroCPUStat
    /\ \A i \in DOMAIN s.BandwidthStat : s.BandwidthStat[i] = ZeroBandwidthStat

\* C6: the first sample of a fresh system Collector, returned by Once or handed
\* to the callback by Run, has zero cpu percentages and zero bandwidth deltas
\* for every interface read.
C6_FirstSampleZero ==
    kind = "system" =>
        /\ pc = "idle" /\ met.onces = 1 => ZeroDeltas(ret)
        /\ \A h \in calls : h.seq = 1 /\ met.onces = 0 => ZeroDeltas(h.stats)

\* the first sample is taken by Run from non-zero counters
C6_Witness ==
    /\ kind = "system"
    /\ met.onces = 0
    /\ \E h \in calls :
        /\ h.seq = 1
        /\ "eth0" \in DOMAIN h.stats.BandwidthStat
        /\ ~obs.last.net.err
        /\ obs.last.net.list["eth0"].BytesSent > 0
        /\ obs.last.cpu.list[1].User > 0

\* the Once of the system Collector has returned the sample of the last round
Returned == kind = "system" /\ pc = "idle" /\ met.onces >= 1

Counters == {"BytesSent", "BytesRecv", "PacketsSent", "PacketsRecv"}

Field(rec, f) ==
    CASE f = "BytesSent" -> rec.BytesSent
      [] f = "BytesRecv" -> rec.BytesRecv
      [] f = "PacketsSent" -> rec.PacketsSent
      [] f = "PacketsRecv" -> rec.PacketsRecv

\* interface i was read in the last round and in an earlier one, and none of its
\* counters went down in between
GrewSince(i) ==
    /\ ~obs.last.net.err
    /\ i \in DOMAIN obs.last.net.list
    /\ ~obs.before.net[i].nil
    /\ \A f \in Counters : Field(obs.last.net.list[i], f) >= Field(obs.before.net[i].v, f)

\* C7: for an interface read now with counters a2 and last read, in whatever
\* earlier sample, with counters a1 <= a2, the Snapshot reports a2 - a1 for each
\* of the four counters.
C7_BandwidthDelta ==
    Returned =>
        \A i \in Interfaces : GrewSince(i) =>
            /\ i \in DOMAIN ret.BandwidthStat
            /\ \A f \in Counters :
                Field(ret.BandwidthStat[i], f) =
                    <<0, Field(obs.last.net.list[i], f) - Field(obs.before.net[i].v, f)>>

\* a counter has grown since the interface's earlier reading, while the other
\* interface is absent from this sample
C7_Witness ==
    /\ Returned
    /\ GrewSince("eth0")
    /\ obs.last.net.list["eth0"].BytesSent > obs.before.net["eth0"].v.BytesSent
    /\ ret.BandwidthStat["eth0"].PacketsRecv = <<0, 1>>
    /\ "lo" \notin DOMAIN ret.BandwidthStat

Buckets(t) ==
    t.User + t.System + t.Nice + t.Iowait + t.Irq + t.Softirq + t.Steal
    + t.Guest + t.GuestNice + t.Stolen + t.Idle

CPURead == ~obs.last.cpu.err /\ obs.last.cpu.list # <<>>

\* the sum of all buckets of the last reading less that of the reading before it
Elapsed == Buckets(obs.last.cpu.list[1]) - Buckets(obs.before.cpu.v)

SameQuotient(q, num, den) == q[2] # 0 /\ q[1] * den = num * q[2]

\* C8: when the sum of all cpu buckets has advanced by total > 0 since the
\* previous reading, each percentage is (now - prev) * 100 / total; on the first
\* reading, on a failed reading and when the total has not advanced, all four are
\* zero and nothing is divided.
C8_CPUPercent ==
    Returned =>
        IF CPURead /\ ~obs.before.cpu.nil /\ Elapsed > 0
        THEN LET now == obs.last.cpu.list[1]
                 prev == obs.before.cpu.v
             IN /\ SameQuotient(ret.CPUStat.User, (now.User - prev.User) * 100, Elapsed)
                /\ SameQuotient(ret.CPUStat.System, (now.System - prev.System) * 100, Elapsed)
                /\ SameQuotient(ret.CPUStat.Idle, (now.Idle - prev.Idle) * 100, Elapsed)
                /\ SameQuotient(ret.CPUStat.Iowait, (now.Iowait - prev.Iowait) * 100, Elapsed)
        ELSE (~CPURead \/ obs.before.cpu.nil \/ Elapsed = 0) => ret.CPUStat = ZeroCPUStat

C8_Witness ==
    /\ Returned
    /\ CPURead
    /\ ~obs.before.cpu.nil
    /\ Elapsed > 0
    /\ ret.CPUStat.Idle[1] > 0
    /\ ret.CPUStat.User[1] = 0

\* C9: whatever groups fail in a round, Once returns a Snapshot; a group whose
\* read failed is left zero (cpu, load, memory, swap) or without entries (a
\* partition, the interfaces), and every group whose read succeeded is filled
\* in from that read.
C9_FailedGroupOmitted ==
    Returned =>
        LET r == obs.last IN
        /\ ret.LoadStat = (IF r.load.err THEN ZeroLoadStat ELSE r.load.val)
        /\ ret.MemStat = (IF r.vmem.err THEN ZeroMemStat ELSE r.vmem.val)
        /\ ret.SwapMemStat = (IF r.swap.err THEN ZeroSwapMemStat ELSE r.swap.val)
        /\ DOMAIN ret.DiskStat = {p \in Mountpoints : ~r.disk[p].err}
        /\ \A p \in DOMAIN ret.DiskStat : ret.DiskStat[p] = r.disk[p].val
        /\ DOMAIN ret.BandwidthStat = (IF r.net.err THEN {} ELSE DOMAIN r.net.list)
        /\ r.cpu.err => ret.CPUStat = ZeroCPUStat /\ c.cpuStat = obs.before.cpu
        /\ CPURead => c.cpuStat = Ptr(r.cpu.list[1])

\* one partition and the load average fail, everything else is read
C9_Witness ==
    /\ Returned
    /\ obs.last.disk["/"].err
    /\ DOMAIN ret.DiskStat = {"/data"}
    /\ ~obs.last.vmem.err
    /\ ret.MemStat.Total > 0
    /\ ~obs.last.net.err
    /\ DOMAIN ret.BandwidthStat = Interfaces

----------------------------------------------------------------------------
(* Properties of concurrent Once *)

\* the two calls as if g had run collectStats to completion before h began
Serial(g, h) ==
    LET first == collectStats(gor.c0, gor.t[g].r)
        second == collectStats(first.c, gor.t[h].r)
    IN /\ gor.t[g].result = first.stats
       /\ gor.t[h].result = second.stats
       /\ c = second.c

\* C5: Once may be called from several goroutines: when two concurrent calls
\* have returned, the Snapshots and the Collector's cpuStat and netStats are
\* those of the two calls made one after the other, in one order or the other.
C5_OnceSerializable ==
    (\A g \in Goroutines : gor.t[g].pc = "done") => Serial(1, 2) \/ Serial(2, 1)

----------------------------------------------------------------------------
(* Properties of the publishers *)

RegistryNames(i) ==
    {"bandwidth." \o i \o ".BytesSent", "bandwidth." \o i \o ".BytesRecv",
     "bandwidth." \o i \o ".PacketsSent", "bandwidth." \o i \o ".PacketsRecv"}

\* the interfaces whose Snapshots the callback has been through
Delivered(i) == IF calls = {} THEN ~obs.seen.net[i].nil ELSE ~obs.before.net[i].nil

DiscoveredKeysPresent ==
    /\ kind = "system" =>
        /\ \A h \in calls :
            DOMAIN h.stats.BandwidthStat =
                (IF obs.last.net.err THEN {} ELSE DOMAIN obs.last.net.list)
        /\ \A i \in Interfaces : Delivered(i) => NetKeys(i) \subseteq DOMAIN systemMap
    /\ kind = "monitor" =>
        \A i \in Interfaces :
            ~obs.seen.net[i].nil =>
                /\ RegistryNames(i) \subseteq DOMAIN mon.registry
                /\ i \in mon.bandwidth

KeysOnlyGrow ==
    /\ DOMAIN systemMap \subseteq DOMAIN systemMap'
    /\ kind = "monitor" => DOMAIN mon.registry \subseteq DOMAIN mon'.registry

\* C10: every interface a read returns is in the Snapshot of that cycle; once an
\* interface has been observed its four keys are in systemMap (from the return
\* of the callback on) and its four names in the registry, and no step removes a
\* key of systemMap or a name of the registry.
C10_DiscoveredKeysStay ==
    []DiscoveredKeysPresent /\ [][KeysOnlyGrow]_vars

\* "lo" is first read in a later cycle of Run, while "eth0" is not read, and the
\* callback has returned
C10_Witness ==
    /\ kind = "system"
    /\ calls = {}
    /\ met.called >= 2
    /\ obs.before.net["lo"].nil
    /\ ~obs.seen.net["lo"].nil
    /\ "eth0" \notin DOMAIN obs.last.net.list
    /\ NetKeys("lo") \cup NetKeys("eth0") \subseteq DOMAIN systemMap

----------------------------------------------------------------------------
(* Properties of the HTTP handler *)

Served == resp # <<>>

\* the wait of n whole seconds
Exactly(n) == [wrapped |-> FALSE, ns |-> Norm(n \o Second)]

\* C11: Stats sleeps exactly n seconds when `seconds` parses as an integer
\* n > 0 and exactly 30 seconds when it is missing, not positive or does not
\* parse, and it answers 200 in every case.
C11_WaitsParsedSeconds ==
    Served =>
        LET p == ParseInt(resp.query)
        IN /\ resp.status = 200
           /\ resp.wait = IF p.err = "nil" /\ ~p.neg /\ p.mag # <<>>
                          THEN Exactly(p.mag) ELSE Exactly(<<3, 0>>)

----------------------------------------------------------------------------
(* Properties of the registry publisher *)

Captured == kind = "monitor" /\ obs.last # NoRead

\* interface i was read in the last capture
ReadNow(i) == ~obs.last.net.err /\ i \in DOMAIN obs.last.net.list

\* the growth of counter f of interface i since its earlier reading, zero at
\* the first one
OwnDelta(i, f) ==
    IF obs.before.net[i].nil THEN 0
    ELSE Field(obs.last.net.list[i], f) - Field(obs.before.net[i].v, f)

\* C12: the four registry names of an interface are bound to four distinct
\* cells, and after a capture the value read under each name is the delta of
\* the counter the name stands for.
C12_NamesReadOwnDelta ==
    Captured =>
        \A i \in Interfaces : ReadNow(i) =>
            /\ \A f \in Counters : "bandwidth." \o i \o "." \o f \in DOMAIN mon.registry
            /\ \A f, g \in Counters :
                 f # g => mon.registry["bandwidth." \o i \o "." \o f]
                            # mon.registry["bandwidth." \o i \o "." \o g]
            /\ \A f \in Counters :
                 mon.gauges[mon.registry["bandwidth." \o i \o "." \o f]] = OwnDelta(i, f)

\* C13: the cpu total of a capture is the sum of all buckets, so whenever that
\* sum has advanced since the previous capture the four cpu gauges hold each
\* category's percentage of the elapsed total.
C13_CPUGaugesUpdated ==
    (Captured /\ CPURead /\ ~obs.before.cpu.nil /\ Elapsed > 0) =>
        LET now == obs.last.cpu.list[1]
            prev == obs.before.cpu.v
        IN /\ mon.gauges["cpu.User"] = TruncQuot((now.User - prev.User) * 100, Elapsed)
           /\ mon.gauges["cpu.System"] = TruncQuot((now.System - prev.System) * 100, Elapsed)
           /\ mon.gauges["cpu.Iowait"] = TruncQuot((now.Iowait - prev.Iowait) * 100, Elapsed)
           /\ mon.gauges["cpu.Idle"] = TruncQuot((now.Idle - prev.Idle) * 100, Elapsed)

----------------------------------------------------------------------------
(* Properties of Run after the close *)

\* C14 as stated, not counting the cycle Run was committed to when Done was
\* closed (its first sample, or a tick it had already received): after the
\* close no callback begins, whether or not a tick is pending at the select.
C14_NoCycleAfterClose == met.late = 0

\* a callback leaves only by returning to the Run that called it
Completes ==
    (done /\ ~(calls \subseteq calls')) =>
        (pc \in {"handler0", "handler"} /\ pc' \in {"ticker", "select"})

\* C14, amended: after the close Run begins a callback only for the cycle it
\* was committed to at the close or for a tick that its select took with Done
\* already closed; a Run woken by the close begins none, and a callback that is
\* executing runs to its return.
C14_LateCycleTookTick == [](met.late <= met.lateTicks) /\ [][Completes]_vars

C14_Witness ==
    /\ done
    /\ met.late >= 1
    /\ pc = "returned"
    /\ calls = {}

----------------------------------------------------------------------------
(* Properties of the response of the HTTP handler *)

CPULines == {"cpu.user", "cpu.system", "cpu.idle", "cpu.iowait"}

\* the interfaces the request's net.IOCounters reported
Reported == IF resp.read.net.err THEN {} ELSE DOMAIN resp.read.net.list

\* C15: whatever the wait and whatever the platform counters, the response
\* has a line for each of the four cpu percentages and for each counter of
\* every interface reported, and every one of these lines reads 0.
C15_DeltasAlwaysZero ==
    Served =>
        /\ \A k \in CPULines :
             /\ <<"sstats", k>> \in DOMAIN resp.body
             /\ resp.body[<<"sstats", k>>].text = "0"
        /\ \A i \in Reported : \A k \in NetKeys(i) :
             /\ <<"sstats", k>> \in DOMAIN resp.body
             /\ resp.body[<<"sstats", k>>].text = "0"
        /\ \A l \in DOMAIN resp.body :
             (l[1] = "sstats" /\ l[2] \in UNION {NetKeys(i) : i \in Interfaces}) =>
                 resp.body[l].text = "0"

C15_Witness ==
    /\ Served
    /\ resp.wait = Exactly(<<7>>)
    /\ ~resp.read.cpu.err
    /\ resp.read.cpu.list # <<>>
    /\ resp.read.cpu.list[1].User > 0
    /\ "eth0" \in Reported
    /\ resp.read.net.list["eth0"].BytesSent > 0
    /\ resp.body[<<"sstats", "net.eth0.bytes_sent">>].text = "0"

\* C16: in one response no key is written on two lines: the keys of
\* rstats.Values() and of sstats.Values() are disjoint.
C16_KeysDisjoint ==
    Served => \A l, m \in DOMAIN resp.body : l[2] = m[2] => l = m

----------------------------------------------------------------------------
(* Properties of the bandwidth deltas when a counter goes down *)

\* interface i was read in the last round and has a stored earlier reading
HasBaseline(i) ==
    /\ ~obs.last.net.err
    /\ i \in DOMAIN obs.last.net.list
    /\ ~obs.before.net[i].nil

\* C17: a reported bandwidth delta is never the wrap-around of now - prev
\* modulo 2^64, and it is at most the growth of the counter since the stored
\* baseline, also when the counter is lower than that baseline.
C17_DeltaNeverWraps ==
    Returned =>
        \A i \in Interfaces : HasBaseline(i) =>
            \A f \in Counters :
                LET d == Field(ret.BandwidthStat[i], f)
                    now == Field(obs.last.net.list[i], f)
                    prev == Field(obs.before.net[i].v, f)
                IN /\ d[1] = 0
                   /\ now >= prev => d[2] <= now - prev

====
